---- MODULE Spec2Model ----
(***************************************************************************)
(* SmartHealthyScan: the capture -> analyze -> validate -> classify        *)
(* pipeline.                                                               *)
(*                                                                         *)
(*   src/geminiService.ts     analyzeIngredientsAndGetRecipes (lines       *)
(*                            4-104) and the App coordinator (lines        *)
(*                            112-236: handleCapture, handleReset, render) *)
(*   src/components/CameraView.tsx   the capture controller                *)
(*                                                                         *)
(* Text is modelled as a sequence of lexemes (words, single whitespace     *)
(* characters, JSON punctuation, quoted JSON strings, numbers).  A run of  *)
(* CJK characters of a user-facing message is one opaque lexeme written    *)
(* "zh:...": no ASCII pattern of the code can match inside it.             *)
(***************************************************************************)
EXTENDS Integers, Sequences, FiniteSets, TLC

(***************************************************************************)
(* Program constants                                                       *)
(***************************************************************************)
TIMEOUT_MS == 45000
MIN_KEY_LENGTH == 10
MAX_WIDTH == 1024
MIN_READY_STATE == 2

(***************************************************************************)
(* Bounds of the model                                                     *)
(***************************************************************************)
\* handleCapture invocations in one behaviour
MaxRuns == 2
\* getUserMedia acquisitions in one behaviour
MaxStreams == 3
\* the clock advances in steps of TickMs milliseconds
TickMs == 15000

(***************************************************************************)
(* Messages                                                                *)
(***************************************************************************)
\* thrown when the credential check fails
ConfigThrowMsg == <<"API_KEY", " ", "zh:not-injected-or-invalid-check-env-vars">>
\* thrown when response.text is empty
EmptyResponseMsg == <<"AI", " ", "zh:response-empty-please-recapture">>
\* thrown when no ingredient was recognised
NoIngredientsMsg == <<"zh:no-ingredients-recognized-move-closer-more-light">>
\* replaces a failure whose message includes "fetch"
NetworkMsg == <<"zh:network-connection-timeout-check-your-network">>
\* replaces a failure whose message includes "Unexpected token"
ParseMsg == <<"zh:data-parse-failed-unexpected-format-please-retry">>
\* the deadline timer's rejection
TimeoutMsg == <<"AI", " ", "zh:response-timeout-network-unstable-or-upload-blocked">>
\* stored when the failure carries no message
BusyMsg == <<"zh:system-busy-cannot-complete-recognition">>
\* stored when the message matches /api[_\s]?key/i
ConfigMsg == <<"zh:env-config-error-check-platform", " ", "API_KEY", " ", "zh:is-injected">>

\* the needles of String.prototype.includes
FetchNeedle == <<"fetch">>
UnexpectedTokenNeedle == <<"Unexpected", " ", "token">>

WhitespaceLexemes == {" ", "\n"}

\* String.prototype.includes: needle occurs as a contiguous part of msg
Includes(msg, needle) ==
  \E i \in 1..(Len(msg) - Len(needle) + 1) :
    SubSeq(msg, i, i + Len(needle) - 1) = needle

\* the i flag of the regular expression: case folding of a lexeme
ToLower(lex) ==
  CASE lex \in {"API_KEY", "Api_Key", "api_key"} -> "api_key"
    [] lex \in {"APIKEY", "ApiKey", "apiKey", "apikey"} -> "apikey"
    [] lex \in {"API", "Api", "api"} -> "api"
    [] lex \in {"KEY", "Key", "key"} -> "key"
    [] OTHER -> lex

\* the same pattern without the i flag
MatchesApiKeyCaseSensitive(msg) ==
  \E i \in 1..Len(msg) :
    \/ msg[i] \in {"api_key", "apikey"}
    \/ /\ i + 2 <= Len(msg)
       /\ msg[i] = "api"
       /\ msg[i + 1] \in WhitespaceLexemes
       /\ msg[i + 2] = "key"

\* /api[_\s]?key/i.test(msg)
MatchesApiKey(msg) ==
  \E i \in 1..Len(msg) :
    \/ ToLower(msg[i]) \in {"api_key", "apikey"}
    \/ /\ i + 2 <= Len(msg)
       /\ ToLower(msg[i]) = "api"
       /\ msg[i + 1] \in WhitespaceLexemes
       /\ ToLower(msg[i + 2]) = "key"

(***************************************************************************)
(* Thrown values                                                           *)
(***************************************************************************)
\* new Error(msg), or any object carrying a message
Err(msg) == [k |-> "error", message |-> msg]
\* a thrown value without a message property (a string, a plain object)
NoMessageValue == [k |-> "nomessage", message |-> <<>>]
\* throw null / throw undefined
NullishValue == [k |-> "nullish", message |-> <<>>]
\* a thrown object whose message is a number
NonStringMessageValue == [k |-> "nonstring", message |-> <<>>]

\* err.message: <<>> stands for undefined and for the empty string, both falsy
MessageOf(e) == IF e.k = "error" THEN e.message ELSE <<>>

(***************************************************************************)
(* JSON.parse over lexemes                                                 *)
(***************************************************************************)
StringLexemes ==
  {"\"\"", "\"ingredients\"", "\"recipes\"", "\"name\"", "\"info\"",
   "\"caloriesPer100g\"", "\"nutrition\"", "\"id\"", "\"difficulty\"",
   "\"prepTime\"", "\"allIngredients\"", "\"instructions\"", "\"length\"",
   "\"tomato\"", "\"rich in lycopene\"", "\"r1\"", "\"tomato soup\"",
   "\"easy\"", "\"10 min\"", "\"dice\"", "\"boil\"", "\"abc\""}
NumberLexemes == {"0", "18", "5"}
LiteralLexemes == {"null", "true", "false"}

\* JSON values, tagged by kind
JNull == [k |-> "null", v |-> "null"]
JBool(b) == [k |-> "bool", v |-> b]
JNum(lex) == [k |-> "num", v |-> lex]
JStr(lex) == [k |-> "str", v |-> lex]
\* an array that keeps the first of equal elements only
JArrDeduplicated(elems) ==
  LET firsts == {i \in 1..Len(elems) : \A j \in 1..(i - 1) : elems[j] # elems[i]} IN
  [k |-> "arr",
   v |-> [n \in 1..Cardinality(firsts) |->
            elems[CHOOSE i \in firsts : Cardinality({j \in firsts : j < i}) = n - 1]]]

JArr(elems) == [k |-> "arr", v |-> elems]
JObj(members) == [k |-> "obj", v |-> members]
\* the value of a property that does not exist
Undefined == [k |-> "undefined", v |-> "undefined"]

\* first index >= i of toks that holds no whitespace (Len(toks) + 1 if none)
RECURSIVE SkipWs(_, _)
SkipWs(toks, i) ==
  IF i <= Len(toks) /\ toks[i] \in WhitespaceLexemes
  THEN SkipWs(toks, i + 1)
  ELSE i

\* last index <= i of toks that holds no whitespace (0 if none)
RECURSIVE SkipWsBack(_, _)
SkipWsBack(toks, i) ==
  IF i >= 1 /\ toks[i] \in WhitespaceLexemes
  THEN SkipWsBack(toks, i - 1)
  ELSE i

\* String.prototype.trim
Trim(toks) == SubSeq(toks, SkipWs(toks, 1), SkipWsBack(toks, Len(toks)))

ParseOk(val, next) == [ok |-> TRUE, val |-> val, next |-> next, kind |-> "none"]
\* kind: "eof", "value", "propname", "colon", "comma-obj", "comma-arr", "trailing"
ParseFail(kind, at) == [ok |-> FALSE, val |-> Undefined, next |-> at, kind |-> kind]

\* obj[key] := val; a repeated key keeps the last value
PutMember(members, key, val) ==
  [x \in (DOMAIN members) \cup {key} |-> IF x = key THEN val ELSE members[x]]

RECURSIVE ParseValue(_, _), ParseMembers(_, _, _), ParseElements(_, _, _)

\* members of an object, toks[j] being where a property name is expected
ParseMembers(toks, j, acc) ==
  IF j > Len(toks) THEN ParseFail("eof", j)
  ELSE IF toks[j] \notin StringLexemes THEN ParseFail("propname", j)
  ELSE
    LET c == SkipWs(toks, j + 1) IN
    IF c > Len(toks) THEN ParseFail("eof", c)
    ELSE IF toks[c] # ":" THEN ParseFail("colon", c)
    ELSE
      LET val == ParseValue(toks, c + 1) IN
      IF ~val.ok THEN val
      ELSE
        LET d == SkipWs(toks, val.next)
            acc2 == PutMember(acc, toks[j], val.val)
        IN
        IF d > Len(toks) THEN ParseFail("eof", d)
        ELSE IF toks[d] = "}" THEN ParseOk(JObj(acc2), d + 1)
        ELSE IF toks[d] = "," THEN ParseMembers(toks, SkipWs(toks, d + 1), acc2)
        ELSE ParseFail("comma-obj", d)

\* elements of an array, an element being expected at toks[j]
ParseElements(toks, j, acc) ==
  LET val == ParseValue(toks, j) IN
  IF ~val.ok THEN val
  ELSE
    LET d == SkipWs(toks, val.next)
        acc2 == Append(acc, val.val)
    IN
    IF d > Len(toks) THEN ParseFail("eof", d)
    ELSE IF toks[d] = "]" THEN ParseOk(JArr(acc2), d + 1)
    ELSE IF toks[d] = "," THEN ParseElements(toks, d + 1, acc2)
    ELSE ParseFail("comma-arr", d)

\* one JSON value starting at or after toks[i0]
ParseValue(toks, i0) ==
  LET i == SkipWs(toks, i0) IN
  IF i > Len(toks) THEN ParseFail("eof", i)
  ELSE
    LET tok == toks[i]
        j == SkipWs(toks, i + 1)
    IN
    CASE tok = "{" ->
           IF j > Len(toks) THEN ParseFail("eof", j)
           ELSE IF toks[j] = "}" THEN ParseOk(JObj(<<>>), j + 1)
           ELSE ParseMembers(toks, j, <<>>)
      [] tok = "[" ->
           IF j > Len(toks) THEN ParseFail("eof", j)
           ELSE IF toks[j] = "]" THEN ParseOk(JArr(<<>>), j + 1)
           ELSE ParseElements(toks, j, <<>>)
      [] tok \in StringLexemes -> ParseOk(JStr(tok), i + 1)
      [] tok \in NumberLexemes -> ParseOk(JNum(tok), i + 1)
      [] tok = "null" -> ParseOk(JNull, i + 1)
      [] tok = "true" -> ParseOk(JBool(TRUE), i + 1)
      [] tok = "false" -> ParseOk(JBool(FALSE), i + 1)
      [] OTHER -> ParseFail("value", i)

\* JSON.parse(toks): one value, then nothing but whitespace
JSONParse(toks) ==
  LET val == ParseValue(toks, 1) IN
  IF ~val.ok THEN val
  ELSE
    LET e == SkipWs(toks, val.next) IN
    IF e <= Len(toks) THEN ParseFail("trailing", e) ELSE val

(***************************************************************************)
(* The messages of the failures the runtime raises.  Their wording is the  *)
(* engine's: V8 before and after its 2022 rewording, and SpiderMonkey.     *)
(* "at position N" suffixes are left out.                                  *)
(***************************************************************************)
Engines == {"v8_legacy", "v8", "spidermonkey"}

\* the single character an engine names in "Unexpected token c"; a markdown
\* fence (three backticks, with or without a language marker) is the lexeme
\* "FENCE", "FENCE:json" or "FENCE:JSON", and its first character "BACKTICK"
OffendingChar(tok) ==
  CASE tok \in {"{", "}", "[", "]", ":", ","} -> tok
    [] tok \in {"FENCE:json", "FENCE:JSON", "FENCE"} -> "BACKTICK"
    [] tok = "<html>" -> "<"
    [] tok = "fetch" -> "e"
    [] tok = "Invalid" -> "I"
    [] OTHER -> "x"

Max(a, b) == IF a > b THEN a ELSE b
Min(a, b) == IF a < b THEN a ELSE b

\* the part of the source text current V8 quotes in its message
SourceContext(toks, at) == SubSeq(toks, Max(1, at - 2), Min(Len(toks), at + 2))

\* the message of the SyntaxError JSON.parse throws
SyntaxErrorMessage(engine, toks, fail) ==
  LET tok == IF fail.next <= Len(toks) THEN toks[fail.next] ELSE "" IN
  CASE engine = "v8_legacy" ->
         IF fail.kind = "eof"
         THEN <<"Unexpected", " ", "end", " ", "of", " ", "JSON", " ", "input">>
         ELSE IF tok \in StringLexemes
         THEN <<"Unexpected", " ", "string", " ", "in", " ", "JSON">>
         ELSE IF tok \in NumberLexemes
         THEN <<"Unexpected", " ", "number", " ", "in", " ", "JSON">>
         ELSE <<"Unexpected", " ", "token", " ", OffendingChar(tok), " ", "in", " ", "JSON">>
    [] engine = "v8" ->
         CASE fail.kind = "eof" ->
                <<"Unexpected", " ", "end", " ", "of", " ", "JSON", " ", "input">>
           [] fail.kind = "trailing" ->
                <<"Unexpected", " ", "non-whitespace", " ", "character", " ", "after", " ", "JSON">>
           [] fail.kind = "propname" ->
                <<"Expected", " ", "property", " ", "name", " ", "or", " ", "'}'", " ", "in", " ", "JSON">>
           [] fail.kind = "colon" ->
                <<"Expected", " ", "':'", " ", "after", " ", "property", " ", "name", " ", "in", " ", "JSON">>
           [] fail.kind = "comma-obj" ->
                <<"Expected", " ", "','", " ", "or", " ", "'}'", " ", "after", " ", "property", " ", "value">>
           [] fail.kind = "comma-arr" ->
                <<"Expected", " ", "','", " ", "or", " ", "']'", " ", "after", " ", "array", " ", "element">>
           [] OTHER ->
                IF tok \in StringLexemes
                THEN <<"Unexpected", " ", "string", " ", "in", " ", "JSON">>
                ELSE IF tok \in NumberLexemes
                THEN <<"Unexpected", " ", "number", " ", "in", " ", "JSON">>
                ELSE <<"Unexpected", " ", "token", " ", "'", OffendingChar(tok), "'", ",", " ", "\"">>
                       \o SourceContext(toks, fail.next)
                       \o <<"\"", " ", "is", " ", "not", " ", "valid", " ", "JSON">>
    [] OTHER ->
         CASE fail.kind = "eof" ->
                <<"JSON.parse:", " ", "unexpected", " ", "end", " ", "of", " ", "data">>
           [] fail.kind = "trailing" ->
                <<"JSON.parse:", " ", "unexpected", " ", "non-whitespace", " ", "character", " ", "after", " ", "JSON", " ", "data">>
           [] fail.kind = "propname" ->
                <<"JSON.parse:", " ", "expected", " ", "property", " ", "name", " ", "or", " ", "'}'">>
           [] fail.kind = "colon" ->
                <<"JSON.parse:", " ", "expected", " ", "':'", " ", "after", " ", "property", " ", "name">>
           [] fail.kind = "comma-obj" ->
                <<"JSON.parse:", " ", "expected", " ", "','", " ", "or", " ", "'}'", " ", "after", " ", "property", " ", "value">>
           [] fail.kind = "comma-arr" ->
                <<"JSON.parse:", " ", "expected", " ", "','", " ", "or", " ", "']'", " ", "after", " ", "array", " ", "element">>
           [] OTHER ->
                <<"JSON.parse:", " ", "unexpected", " ", "character">>

\* the message of the TypeError a property read of null throws
NullReadMessage(engine) ==
  CASE engine = "v8_legacy" ->
         <<"Cannot", " ", "read", " ", "property", " ", "'ingredients'", " ", "of", " ", "null">>
    [] engine = "v8" ->
         <<"Cannot", " ", "read", " ", "properties", " ", "of", " ", "null", " ", "(reading", " ", "'ingredients')">>
    [] OTHER ->
         <<"can't", " ", "access", " ", "property", " ", "\"ingredients\"", ",", " ", "parsedData", " ", "is", " ", "null">>

(***************************************************************************)
(* analyzeIngredientsAndGetRecipes                                         *)
(***************************************************************************)
\* process.env.API_KEY: NoKey (undefined) or a string of characters
NoKey == [defined |-> FALSE, chars |-> <<>>]
KeyString(chars) == [defined |-> TRUE, chars |-> chars]

\* !apiKey || apiKey === "undefined" || apiKey.length < 10
KeyRejected(apiKey) ==
  \/ ~apiKey.defined
  \/ apiKey.chars = <<>>
  \/ apiKey.chars = <<"u", "n", "d", "e", "f", "i", "n", "e", "d">>
  \/ Len(apiKey.chars) < MIN_KEY_LENGTH

\* what a promise settles with
Resolved(data) == [k |-> "resolved", data |-> data, err |-> NoMessageValue]
Rejected(e) == [k |-> "rejected", data |-> Undefined, err |-> e]

\* parsedData.ingredients of a parsed value that is not null
IngredientsOf(parsed) ==
  IF parsed.k = "obj" /\ "\"ingredients\"" \in DOMAIN parsed.v
  THEN parsed.v["\"ingredients\""]
  ELSE Undefined

\* !value
Falsy(value) ==
  \/ value.k \in {"undefined", "null"}
  \/ value.k = "bool" /\ ~value.v
  \/ value.k = "num" /\ value.v = "0"
  \/ value.k = "str" /\ value.v = "\"\""

\* value.length === 0
LengthIsZero(value) ==
  \/ value.k = "arr" /\ Len(value.v) = 0
  \/ value.k = "str" /\ value.v = "\"\""
  \/ /\ value.k = "obj"
     /\ "\"length\"" \in DOMAIN value.v
     /\ value.v["\"length\""].k = "num"
     /\ value.v["\"length\""].v = "0"

\* the message of the TypeError of calling includes on a number
NotAFunctionMessage ==
  <<"error.message?.includes", " ", "is", " ", "not", " ", "a", " ", "function">>

\* the catch block with error?.message: a thrown null is thrown on
AnalyzeCatchOptionalError(engine, e) ==
  IF e.k = "nullish" THEN Rejected(e)
  ELSE IF e.k = "nonstring" THEN Rejected(Err(NotAFunctionMessage))
  ELSE IF Includes(MessageOf(e), FetchNeedle) THEN Rejected(Err(NetworkMsg))
  ELSE IF Includes(MessageOf(e), UnexpectedTokenNeedle) THEN Rejected(Err(ParseMsg))
  ELSE Rejected(e)

\* the catch block: a fetch or "Unexpected token" failure is replaced, the
\* rest is thrown on; reading .message of null or undefined throws itself,
\* and so does calling includes on a message that is no string
AnalyzeCatch(engine, e) ==
  IF e.k = "nullish"
  THEN Rejected(Err(NullReadMessage(engine)))
  ELSE IF e.k = "nonstring"
  THEN Rejected(Err(NotAFunctionMessage))
  ELSE IF Includes(MessageOf(e), FetchNeedle) THEN Rejected(Err(NetworkMsg))
  ELSE IF Includes(MessageOf(e), UnexpectedTokenNeedle) THEN Rejected(Err(ParseMsg))
  ELSE Rejected(e)

\* what the service call gives: a response text, or a thrown value
ServiceText(toks) == [k |-> "text", text |-> toks, thrown |-> NoMessageValue]
ServiceThrows(e) == [k |-> "throws", text |-> <<>>, thrown |-> e]

\* the body of the try block from the settlement of generateContent on
AnalyzeSettle(engine, outcome) ==
  IF outcome.k = "throws" THEN AnalyzeCatch(engine, outcome.thrown)
  ELSE IF outcome.text = <<>> THEN AnalyzeCatch(engine, Err(EmptyResponseMsg))
  ELSE
    LET cleanedText == Trim(outcome.text)
        parsed == JSONParse(cleanedText)
    IN
    IF ~parsed.ok
    THEN AnalyzeCatch(engine, Err(SyntaxErrorMessage(engine, cleanedText, parsed)))
    ELSE IF parsed.val.k = "null"
    THEN AnalyzeCatch(engine, Err(NullReadMessage(engine)))
    ELSE IF Falsy(IngredientsOf(parsed.val)) \/ LengthIsZero(IngredientsOf(parsed.val))
    THEN AnalyzeCatch(engine, Err(NoIngredientsMsg))
    ELSE Resolved(parsed.val)

(***************************************************************************)
(* The responses of the vision service the model draws from                *)
(***************************************************************************)
\* scenario A of the specification, in ASCII
ValidPayload ==
  <<"{", "\"ingredients\"", ":", "[",
      "{", "\"name\"", ":", "\"tomato\"", ",", "\"info\"", ":", "\"rich in lycopene\"", ",",
           "\"caloriesPer100g\"", ":", "18", "}",
    "]", ",", "\"recipes\"", ":", "[",
      "{", "\"id\"", ":", "\"r1\"", ",", "\"name\"", ":", "\"tomato soup\"", ",",
           "\"difficulty\"", ":", "\"easy\"", ",", "\"prepTime\"", ":", "\"10 min\"", ",",
           "\"allIngredients\"", ":", "[", "\"tomato\"", "]", ",",
           "\"instructions\"", ":", "[", "\"dice\"", ",", "\"boil\"", "]", "}",
    "]", "}">>
EmptyIngredientsPayload ==
  <<"{", "\"ingredients\"", ":", "[", "]", ",", "\"recipes\"", ":", "[", "]", "}">>
EmptyIngredientsWithRecipes ==
  <<"{", "\"ingredients\"", ":", "[", "]", ",", "\"recipes\"", ":", "[",
      "{", "\"id\"", ":", "\"r1\"", "}", "]", "}">>
MissingIngredientsPayload == <<"{", "\"recipes\"", ":", "[", "]", "}">>
NullIngredientsPayload == <<"{", "\"ingredients\"", ":", "null", "}">>
EmptyObjectPayload == <<"{", "}">>
NullPayload == <<"null">>
NumberPayload == <<"5">>
ArrayPayload == <<"[", "]">>
NumberIngredientsPayload == <<"{", "\"ingredients\"", ":", "5", ",", "\"recipes\"", ":", "[", "]", "}">>
ObjectIngredientsPayload == <<"{", "\"ingredients\"", ":", "{", "}", ",", "\"recipes\"", ":", "[", "]", "}">>
TrueIngredientsPayload == <<"{", "\"ingredients\"", ":", "true", "}">>
IncompleteIngredientPayload ==
  <<"{", "\"ingredients\"", ":", "[", "{", "\"name\"", ":", "\"tomato\"", "}", "]", ",",
    "\"recipes\"", ":", "[", "]", "}">>

\* the same ingredient twice, no recipes
RepeatedIngredientPayload ==
  <<"{", "\"ingredients\"", ":", "[",
      "{", "\"name\"", ":", "\"tomato\"", ",", "\"info\"", ":", "\"rich in lycopene\"", ",",
           "\"caloriesPer100g\"", ":", "18", "}", ",",
      "{", "\"name\"", ":", "\"tomato\"", ",", "\"info\"", ":", "\"rich in lycopene\"", ",",
           "\"caloriesPer100g\"", ":", "18", "}",
    "]", ",", "\"recipes\"", ":", "[", "]", "}">>

\* the payload between markdown fences with a language marker
Fenced(marker, payload) == <<marker, "\n">> \o payload \o <<"\n", "FENCE">>
FenceMarkers == {"FENCE:json", "FENCE:JSON", "FENCE"}
\* the payload with whitespace around it
Padded(payload) == <<" ", "\n">> \o payload \o <<"\n">>

\* texts that parse and carry no usable ingredients
NoIngredientsTexts ==
  {EmptyIngredientsPayload, EmptyIngredientsWithRecipes, MissingIngredientsPayload,
   NullIngredientsPayload, EmptyObjectPayload, NullPayload, NumberPayload, ArrayPayload,
   Padded(EmptyIngredientsPayload)}
\* texts that parse and whose ingredients field is something
IngredientsTexts ==
  {ValidPayload, Padded(ValidPayload), RepeatedIngredientPayload, NumberIngredientsPayload, ObjectIngredientsPayload,
   TrueIngredientsPayload, IncompleteIngredientPayload}
\* non-empty texts that are no JSON
MalformedTexts ==
  {<<"<html>">>,
   <<"{", "\"ingredients\"", ":", "[">>,
   <<" ", "\n">>,
   <<"{", "}", "garbage">>,
   <<"fetch", " ", "failed">>,
   <<"Invalid", " ", "API", " ", "key">>,
   <<"{", "\"ingredients\"", "[", "]", "}">>,
   <<"{", "\"ingredients\"", ":", "[", "]", "\"recipes\"", "}">>}
FencedTexts ==
  {Fenced(m, p) : m \in FenceMarkers, p \in {EmptyIngredientsPayload, ValidPayload}}
\* response.text is undefined or the empty string
EmptyText == <<>>

ResponseTexts ==
  NoIngredientsTexts \cup IngredientsTexts \cup MalformedTexts \cup FencedTexts \cup {EmptyText}

\* the failures generateContent rejects with
ServiceFailures ==
  {Err(<<"Failed", " ", "to", " ", "fetch">>),
   Err(<<"API", " ", "key", " ", "not", " ", "valid">>),
   Err(<<"fetch", " ", "failed:", " ", "API_KEY", " ", "rejected">>),
   Err(<<"Unexpected", " ", "token", " ", "in", " ", "stream">>),
   Err(<<"Internal", " ", "error", " ", "500">>),
   Err(<<>>),
   NoMessageValue,
   NullishValue,
   NonStringMessageValue}

ServiceOutcomes ==
  {ServiceText(t) : t \in ResponseTexts} \cup {ServiceThrows(e) : e \in ServiceFailures}

(***************************************************************************)
(* State                                                                   *)
(***************************************************************************)
VARIABLES
  isProcessing,   \* App: the busy flag
  result,         \* App: Null or Stored("result", data)
  error,          \* App: Null or Stored("error", message)
  runs,           \* one record per handleCapture invocation, in order
  apiKey,         \* process.env.API_KEY
  secure,         \* window.isSecureContext or the host is localhost
  cam,            \* the CameraView instance, its video element and the device
  ev              \* the operation that led to this state, with its inputs

vars == <<isProcessing, result, error, runs, apiKey, secure, cam, ev>>

Null == [k |-> "nil", v |-> "nil"]
Stored(kind, value) == [k |-> kind, v |-> value]

ApiKeys ==
  {NoKey,
   KeyString(<<>>),
   KeyString(<<"u", "n", "d", "e", "f", "i", "n", "e", "d">>),
   KeyString(<<"s", "h", "o", "r", "t", "k", "e", "y", "9">>),
   KeyString(<<"A", "I", "z", "a", "S", "y", "k", "e", "y", "0", "1">>)}

(***************************************************************************)
(* CameraView                                                              *)
(***************************************************************************)
InsecureMsg == "zh:recognition-needs-https"
PermissionDeniedMsg == "zh:camera-permission-denied"
NoDeviceMsg == "zh:cannot-access-camera-device"
TapToStartMsg == "zh:tap-screen-to-start-camera"

\* what getUserMedia rejects with
AcquireFailures == {"NotAllowedError", "NotFoundError"}

\* the frames the video element can report at a capture
Frames ==
  {[readyState |-> 1, videoWidth |-> 0, videoHeight |-> 0],
   [readyState |-> 4, videoWidth |-> 0, videoHeight |-> 0],
   [readyState |-> 1, videoWidth |-> 1280, videoHeight |-> 720],
   [readyState |-> 4, videoWidth |-> 1280, videoHeight |-> 720],
   [readyState |-> 4, videoWidth |-> 640, videoHeight |-> 480]}

\* a CameraView that is not mounted; the device's streams outlive it
Blank(c) ==
  [mounted |-> FALSE, error |-> Null, streamActive |-> FALSE, capturedImage |-> FALSE,
   videoSrc |-> 0, videoPhase |-> "none", gumPending |-> 0, requests |-> 0, handed |-> 0,
   gumOrphan |-> c.gumOrphan, tracks |-> c.tracks]

\* the video element is rendered: no error panel, no captured still
VideoShown(c) == c.mounted /\ c.error = Null /\ ~c.capturedImage

\* a commit: a video element that is no longer rendered is dropped with its
\* srcObject and handlers, and the one rendered next is a new element
Render(c) ==
  IF VideoShown(c) THEN c
  ELSE [c EXCEPT !.videoSrc = 0, !.videoPhase = "none"]

\* the tracks left as they are
StopTracksForgotten(tracks, s) == tracks

\* getTracks().forEach(t => t.stop()) on stream s
StopTracks(tracks, s) == [i \in DOMAIN tracks |-> IF i = s THEN FALSE ELSE tracks[i]]

\* startCamera without the test of the secure context
StartCameraWithoutSecureCheck(c, isSecure) ==
  Render([c EXCEPT !.capturedImage = FALSE,
                   !.gumPending = c.gumPending + 1,
                   !.requests = 1,
                   !.handed = 0])

\* startCamera up to its await; requests counts the getUserMedia calls of
\* this call of startCamera
StartCamera(c, isSecure) ==
  IF ~isSecure
  THEN Render([c EXCEPT !.error = Stored("error", InsecureMsg)])
  ELSE Render([c EXCEPT !.capturedImage = FALSE,
                        !.gumPending = c.gumPending + 1,
                        !.requests = 1,
                        !.handed = 0])

\* the cleanup of the effect: the tracks of the stream of the video element
\* that is rendered now are stopped
EffectCleanup(c) ==
  IF c.videoSrc # 0
  THEN [c EXCEPT !.tracks = StopTracks(c.tracks, c.videoSrc)]
  ELSE c

\* the effect without isProcessing among its dependencies: it does not run
\* again, and the camera is not started again
EffectRerunNever(c, nowProcessing, isSecure) == c

\* the effect runs again because isProcessing changed
EffectRerun(c, nowProcessing, isSecure) ==
  IF nowProcessing THEN EffectCleanup(c)
  ELSE StartCamera(EffectCleanup(c), isSecure)

\* <CameraView> rendered whatever the result
CamShownAlways(res) == TRUE

\* <CameraView> is rendered only while there is no result
CamShown(res) == res = Null

\* the App renders again after its state changed
AppRender(c, wasProcessing, nowProcessing, res, isSecure) ==
  IF c.mounted /\ ~CamShown(res) THEN Blank([c EXCEPT !.gumOrphan = c.gumOrphan + c.gumPending])
  ELSE IF ~c.mounted /\ CamShown(res)
  THEN LET fresh == [Blank(c) EXCEPT !.mounted = TRUE] IN
       IF nowProcessing THEN fresh ELSE StartCamera(fresh, isSecure)
  ELSE IF c.mounted /\ wasProcessing # nowProcessing
  THEN EffectRerun(Render(c), nowProcessing, isSecure)
  ELSE Render(c)

(***************************************************************************)
(* App: handleCapture                                                      *)
(***************************************************************************)
Pending == [k |-> "pending", data |-> Undefined, err |-> NoMessageValue]

\* the credential check with the key kept from the first call
AnalyzeStartCached(key) ==
  IF runs = <<>>
  THEN IF KeyRejected(key) THEN Rejected(Err(ConfigThrowMsg)) ELSE Pending
  ELSE IF runs[1].svc = "notcalled" THEN Rejected(Err(ConfigThrowMsg)) ELSE Pending

\* analyzeIngredientsAndGetRecipes up to its await: the credential check
\* throws outside the try block, otherwise generateContent is called
AnalyzeStart(key) ==
  IF KeyRejected(key) THEN Rejected(Err(ConfigThrowMsg)) ELSE Pending

\* the catch block of handleCapture: the message it hands to setError
\* (reading .message of null or undefined throws, and nothing is stored)
CatchMessage(err) ==
  LET msg == IF MessageOf(err) # <<>> THEN MessageOf(err) ELSE BusyMsg IN
  IF MatchesApiKey(msg) THEN ConfigMsg ELSE msg

\* what a settled race stores: setResult(data), or setError(msg)
Outcome(settlement) ==
  IF settlement.k = "resolved" THEN Stored("result", settlement.data)
  ELSE IF settlement.err.k = "nullish" THEN Null
  ELSE Stored("error", CatchMessage(settlement.err))

\* a run of handleCapture whose race is decided by settlement
NewRun(settlement) ==
  [svc |-> IF settlement.k = "pending" THEN "pending" ELSE "notcalled",
   calls |-> IF settlement.k = "pending" THEN 1 ELSE 0,
   timer |-> "armed",
   elapsed |-> 0,
   race |-> IF settlement.k = "pending" THEN "pending" ELSE "settled",
   won |-> IF settlement.k = "pending" THEN "none" ELSE "credential",
   writes |-> IF settlement.k = "pending" \/ Outcome(settlement) = Null THEN 0 ELSE 1]

\* handleCapture(base64Image), called with the CameraView in state c: the
\* synchronous part and, when the credential check fails, the continuation
\* that follows it before any other event
HandleCapture(c) ==
  LET settlement == AnalyzeStart(apiKey)
      busy == AppRender(c, isProcessing, TRUE, result, secure)
  IN
  /\ runs' = Append(runs, NewRun(settlement))
  /\ result' = result
  /\ IF settlement.k = "pending"
     THEN /\ isProcessing' = TRUE
          /\ error' = Null
          /\ cam' = busy
     ELSE /\ isProcessing' = FALSE
          /\ error' = Outcome(settlement)
          /\ cam' = AppRender(busy, TRUE, FALSE, result, secure)

\* the continuation that calls the service once more after a failure of
\* the service
RaceSettlesWithRetry(rs, r, settlement, winner) ==
  LET out == Outcome(settlement) IN
  IF winner = "service" /\ settlement.k = "rejected" /\ rs[r].calls < 2
  THEN /\ runs' = [rs EXCEPT ![r].svc = "pending", ![r].calls = @ + 1]
       /\ UNCHANGED <<isProcessing, result, error, cam>>
  ELSE /\ runs' = [rs EXCEPT ![r].race = "settled",
                               ![r].won = winner,
                               ![r].writes = IF out = Null THEN @ ELSE @ + 1]
       /\ result' = IF out.k = "result" THEN out ELSE result
       /\ error' = IF out.k = "error" THEN out ELSE error
       /\ isProcessing' = FALSE
       /\ cam' = AppRender(cam, isProcessing, FALSE, result', secure)

\* the continuation with setIsProcessing(false) at the end of the try block
\* instead of in a finally block
RaceSettlesWithoutFinally(rs, r, settlement, winner) ==
  LET out == Outcome(settlement) IN
  /\ runs' = [rs EXCEPT ![r].race = "settled",
                          ![r].won = winner,
                          ![r].writes = IF out = Null THEN @ ELSE @ + 1]
  /\ result' = IF out.k = "result" THEN out ELSE result
  /\ error' = IF out.k = "error" THEN out ELSE error
  /\ isProcessing' = (out.k # "result")
  /\ cam' = AppRender(cam, isProcessing, isProcessing', result', secure)

\* the continuation of handleCapture after the race of run r settled
RaceSettles(rs, r, settlement, winner) ==
  LET out == Outcome(settlement) IN
  /\ runs' = [rs EXCEPT ![r].race = "settled",
                          ![r].won = winner,
                          ![r].writes = IF out = Null THEN @ ELSE @ + 1]
  /\ result' = IF out.k = "result" THEN out ELSE result
  /\ error' = IF out.k = "error" THEN out ELSE error
  /\ isProcessing' = FALSE
  /\ cam' = AppRender(cam, isProcessing, FALSE, result', secure)

\* a late settlement that runs the finally block once more
LateSettlementClearsBusy(rs, r, settlement, winner) ==
  /\ runs' = rs
  /\ isProcessing' = FALSE
  /\ cam' = AppRender(cam, isProcessing, FALSE, result, secure)
  /\ UNCHANGED <<result, error>>

\* a late settlement handled like the first one
LateSettlementApplied(rs, r, settlement, winner) ==
  RaceSettles(rs, r, settlement, winner)

\* a settlement of run r that comes after Promise.race already settled: the
\* race ignores it, and the continuation of handleCapture does not run again
LateSettlement(rs, r, settlement, winner) ==
  /\ runs' = rs
  /\ UNCHANGED <<isProcessing, result, error, cam>>

(***************************************************************************)
(* Operations                                                              *)
(***************************************************************************)
\* canvas.width and canvas.height for a frame
CanvasWidth(frame) ==
  IF frame.videoWidth <= MAX_WIDTH THEN frame.videoWidth ELSE MAX_WIDTH
CanvasHeight(frame) ==
  IF frame.videoWidth <= MAX_WIDTH THEN frame.videoHeight
  ELSE (frame.videoHeight * MAX_WIDTH) \div frame.videoWidth

\* the guards without the test of streamActive
CaptureRefusedWithoutStreamCheck(c, busy, frame) ==
  \/ busy
  \/ ~VideoShown(c)
  \/ frame.readyState < MIN_READY_STATE
  \/ frame.videoWidth = 0

\* the guards without the first return: only the frame is tested
CaptureRefusedFrameOnly(c, busy, frame) ==
  \/ frame.readyState < MIN_READY_STATE
  \/ frame.videoWidth = 0

\* the guards of capturePhoto: it returns without doing anything
CaptureRefused(c, busy, frame) ==
  \/ busy
  \/ ~c.streamActive
  \/ ~VideoShown(c)
  \/ frame.readyState < MIN_READY_STATE
  \/ frame.videoWidth = 0

\* capturePhoto: the click on the shutter button (or any call of the
\* function); the model follows at most maxRuns accepted captures
CapturePhotoUpTo(maxRuns) ==
  /\ cam.mounted
  /\ \E frame \in Frames, hasContext \in BOOLEAN :
       IF CaptureRefused(cam, isProcessing, frame) \/ ~hasContext
       THEN /\ ev' = [op |-> "capturePhoto", accepted |-> FALSE, frame |-> frame]
            /\ UNCHANGED <<isProcessing, result, error, runs, cam>>
       ELSE LET hasImage == CanvasWidth(frame) > 0 /\ CanvasHeight(frame) > 0
                stopped == IF cam.videoSrc # 0
                           THEN [cam EXCEPT !.capturedImage = TRUE,
                                            !.tracks = StopTracks(cam.tracks, cam.videoSrc),
                                            !.streamActive = FALSE]
                           ELSE [cam EXCEPT !.capturedImage = TRUE]
            IN
            /\ ev' = [op |-> "capturePhoto", accepted |-> hasImage, frame |-> frame]
            /\ IF hasImage
               THEN /\ Len(runs) < maxRuns
                    /\ HandleCapture([stopped EXCEPT !.handed = @ + 1])
               ELSE /\ cam' = Render(stopped)
                    /\ UNCHANGED <<isProcessing, result, error, runs>>
  /\ UNCHANGED <<apiKey, secure>>

CapturePhoto == CapturePhotoUpTo(MaxRuns)

\* generateContent of run r settles and analyzeIngredientsAndGetRecipes
\* finishes with it
ServiceSettlesWith(outcomes, engines) ==
  \E r \in DOMAIN runs, outcome \in outcomes, engine \in engines :
    /\ runs[r].svc = "pending"
    /\ ev' = IF runs[r].race = "pending"
             THEN [op |-> "serviceSettles", run |-> r, late |-> FALSE,
                   outcome |-> outcome, engine |-> engine]
             ELSE [op |-> "serviceSettles", run |-> r, late |-> TRUE]
    /\ LET rs == [runs EXCEPT ![r].svc = "settled"] IN
       IF runs[r].race = "pending"
       THEN RaceSettles(rs, r, AnalyzeSettle(engine, outcome), "service")
       ELSE LateSettlement(rs, r, AnalyzeSettle(engine, outcome), "service")
    /\ UNCHANGED <<apiKey, secure>>

\* the delay taken as seconds
TimerElapsedInSeconds(run) == run.elapsed >= TIMEOUT_MS \div 1000

\* setTimeout(..., 45000): the delay of the timer of a run has passed
TimerElapsed(run) == run.elapsed >= TIMEOUT_MS

\* the timer of run r fires and rejects timeoutPromise
TimerFires ==
  \E r \in DOMAIN runs :
    /\ runs[r].timer = "armed"
    /\ TimerElapsed(runs[r])
    /\ ev' = [op |-> "timerFires", run |-> r, late |-> runs[r].race = "settled"]
    /\ LET rs == [runs EXCEPT ![r].timer = "fired"] IN
       IF runs[r].race = "pending"
       THEN RaceSettles(rs, r, Rejected(Err(TimeoutMsg)), "timer")
       ELSE LateSettlement(rs, r, Rejected(Err(TimeoutMsg)), "timer")
    /\ UNCHANGED <<apiKey, secure>>

\* a timer that is due fires before more time passes
TimerDue == \E r \in DOMAIN runs : runs[r].timer = "armed" /\ TimerElapsed(runs[r])

\* TickMs milliseconds pass
Tick ==
  /\ \E r \in DOMAIN runs : runs[r].timer = "armed"
  /\ ~TimerDue
  /\ runs' = [r \in DOMAIN runs |->
                IF runs[r].timer = "armed"
                THEN [runs[r] EXCEPT !.elapsed = @ + TickMs]
                ELSE runs[r]]
  /\ ev' = [op |-> "tick"]
  /\ UNCHANGED <<isProcessing, result, error, apiKey, secure, cam>>

\* handleReset without setResult(null)
HandleResetErrorOnly ==
  /\ ~CamShown(result)
  /\ error' = Null
  /\ cam' = AppRender(cam, isProcessing, isProcessing, result, secure)
  /\ ev' = [op |-> "handleReset"]
  /\ UNCHANGED <<isProcessing, result, runs, apiKey, secure>>

\* handleReset: the onReset of ResultDisplay, rendered while there is a result
HandleReset ==
  /\ ~CamShown(result)
  /\ result' = Null
  /\ error' = Null
  /\ cam' = AppRender(cam, isProcessing, isProcessing, Null, secure)
  /\ ev' = [op |-> "handleReset"]
  /\ UNCHANGED <<isProcessing, runs, apiKey, secure>>

\* the deployment gives process.env.API_KEY another value
ReconfigureKey ==
  /\ \E key \in ApiKeys : key # apiKey /\ apiKey' = key
  /\ ev' = [op |-> "reconfigureKey"]
  /\ UNCHANGED <<isProcessing, result, error, runs, secure, cam>>

\* getUserMedia resolves with a stream: the continuation of startCamera
AcquireResolves ==
  /\ cam.gumPending > 0
  /\ Len(cam.tracks) < MaxStreams
  /\ LET s == Len(cam.tracks) + 1
         got == [cam EXCEPT !.gumPending = @ - 1, !.tracks = Append(@, TRUE)]
         attached == IF VideoShown(cam)
                     THEN [got EXCEPT !.videoSrc = s, !.videoPhase = "loading"]
                     ELSE got
     IN cam' = Render([attached EXCEPT !.error = Null])
  /\ ev' = [op |-> "acquireResolves"]
  /\ UNCHANGED <<isProcessing, result, error, runs, apiKey, secure>>

\* getUserMedia rejects: the catch block of startCamera
AcquireRejects ==
  /\ cam.gumPending > 0
  /\ \E name \in AcquireFailures :
       cam' = Render([cam EXCEPT !.gumPending = @ - 1,
                                 !.error = Stored("error",
                                              IF name = "NotAllowedError"
                                              THEN PermissionDeniedMsg
                                              ELSE NoDeviceMsg)])
  /\ ev' = [op |-> "acquireRejects"]
  /\ UNCHANGED <<isProcessing, result, error, runs, apiKey, secure>>

\* getUserMedia settles for a CameraView that was unmounted meanwhile: its
\* videoRef is null and its state setters do nothing
OrphanAcquireSettles ==
  /\ cam.gumOrphan > 0
  /\ \/ /\ Len(cam.tracks) < MaxStreams
        /\ cam' = [cam EXCEPT !.gumOrphan = @ - 1, !.tracks = Append(@, TRUE)]
     \/ cam' = [cam EXCEPT !.gumOrphan = @ - 1]
  /\ ev' = [op |-> "orphanAcquireSettles"]
  /\ UNCHANGED <<isProcessing, result, error, runs, apiKey, secure>>

\* onloadedmetadata: play() is called on the video element
LoadedMetadata ==
  /\ cam.videoPhase = "loading"
  /\ cam' = [cam EXCEPT !.videoPhase = "playPending"]
  /\ ev' = [op |-> "loadedMetadata"]
  /\ UNCHANGED <<isProcessing, result, error, runs, apiKey, secure>>

\* play() resolves: setStreamActive(true)
PlayResolves ==
  /\ cam.videoPhase = "playPending"
  /\ cam' = [cam EXCEPT !.videoPhase = "playing", !.streamActive = TRUE]
  /\ ev' = [op |-> "playResolves"]
  /\ UNCHANGED <<isProcessing, result, error, runs, apiKey, secure>>

\* play() rejects and the catch calls setStreamActive(true)
PlayRejectsSetsActive ==
  /\ cam.videoPhase = "playPending"
  /\ cam' = [cam EXCEPT !.videoPhase = "playing", !.streamActive = TRUE]
  /\ ev' = [op |-> "playRejects"]
  /\ UNCHANGED <<isProcessing, result, error, runs, apiKey, secure>>

\* play() rejects: setError
PlayRejects ==
  /\ cam.videoPhase = "playPending"
  /\ cam' = Render([cam EXCEPT !.error = Stored("error", TapToStartMsg)])
  /\ ev' = [op |-> "playRejects"]
  /\ UNCHANGED <<isProcessing, result, error, runs, apiKey, secure>>

\* the button of the error panel: setError(null); startCamera()
RetryCamera ==
  /\ cam.mounted
  /\ cam.error # Null
  /\ cam' = LET started == StartCamera(cam, secure) IN
            IF secure THEN Render([started EXCEPT !.error = Null]) ELSE started
  /\ ev' = [op |-> "retryCamera"]
  /\ UNCHANGED <<isProcessing, result, error, runs, apiKey, secure>>

\* handleCapture called by any caller, whatever the CameraView shows
DirectHandleCapture ==
  /\ Len(runs) < MaxRuns
  /\ HandleCapture(cam)
  /\ ev' = [op |-> "handleCapture"]
  /\ UNCHANGED <<apiKey, secure>>

\* the responses the composed system is explored with: one of each way the
\* race can end (a result, a replaced failure, a failure thrown on as it is,
\* a failure without message)
ControlOutcomes ==
  {ServiceText(ValidPayload),
   ServiceText(EmptyIngredientsPayload),
   ServiceThrows(Err(<<"Failed", " ", "to", " ", "fetch">>)),
   ServiceThrows(NoMessageValue)}

ServiceSettles == ServiceSettlesWith(ControlOutcomes, {"v8"})

\* the same step with every response and every engine of the model
ServiceSettlesAny == ServiceSettlesWith(ServiceOutcomes, Engines)

(***************************************************************************)
(* Specifications                                                          *)
(***************************************************************************)
NoDevice == [gumOrphan |-> 0, tracks |-> <<>>]

Init ==
  /\ isProcessing = FALSE
  /\ result = Null
  /\ error = Null
  /\ runs = <<>>
  /\ apiKey \in ApiKeys
  /\ secure \in BOOLEAN
  /\ cam = AppRender(Blank(NoDevice), FALSE, FALSE, Null, secure)
  /\ ev = [op |-> "init"]

\* the composed system: the App, its CameraView, the service, the camera.
\* A CameraView is unmounted only when a result is stored, and by then none
\* of its getUserMedia calls is pending: OrphanAcquireSettles takes no step here
Next ==
  \/ CapturePhoto
  \/ ServiceSettles
  \/ TimerFires
  \/ Tick
  \/ HandleReset
  \/ AcquireResolves
  \/ AcquireRejects
  \/ LoadedMetadata
  \/ PlayResolves
  \/ PlayRejects
  \/ RetryCamera

Spec == Init /\ [][Next]_vars

\* the composed system in which time passes and a timer that is due fires;
\* nothing is assumed of the service, which may never settle
SpecLive == Init /\ [][Next]_vars /\ WF_vars(Tick) /\ WF_vars(TimerFires)

\* the composed system in a deployment whose credential is changed while
\* the App runs, and whose camera does not fail
NextReconfigure ==
  \/ CapturePhoto
  \/ ServiceSettles
  \/ TimerFires
  \/ Tick
  \/ HandleReset
  \/ AcquireResolves
  \/ LoadedMetadata
  \/ PlayResolves
  \/ ReconfigureKey

SpecReconfigure == Init /\ [][NextReconfigure]_vars

\* the composed system with a device that grants the camera and plays the
\* feed: getUserMedia resolves, loadedmetadata fires and play() resolves,
\* each in the end; time passes and due timers fire
NextGranted ==
  \/ CapturePhoto
  \/ ServiceSettles
  \/ TimerFires
  \/ Tick
  \/ HandleReset
  \/ AcquireResolves
  \/ LoadedMetadata
  \/ PlayResolves

SpecGranted ==
  /\ Init
  /\ [][NextGranted]_vars
  /\ WF_vars(Tick)
  /\ WF_vars(TimerFires)
  /\ WF_vars(AcquireResolves)
  /\ WF_vars(LoadedMetadata)
  /\ WF_vars(PlayResolves)

\* the coordinator driven through its own interface, handleCapture(bytes)
\* and reset(), by a caller that is not the shutter button of the CameraView
NextCoord ==
  \/ DirectHandleCapture
  \/ ServiceSettles
  \/ TimerFires
  \/ Tick
  \/ HandleReset
  \/ AcquireResolves
  \/ AcquireRejects
  \/ OrphanAcquireSettles
  \/ LoadedMetadata
  \/ PlayResolves
  \/ PlayRejects

SpecCoord == Init /\ [][NextCoord]_vars

\* the composed system with every response and every engine of the model.
\* What a run stores depends on nothing an earlier run left behind, so the
\* runs of one behaviour are few
MaxValidatedRuns == 1

NextValidate ==
  \/ CapturePhotoUpTo(MaxValidatedRuns)
  \/ ServiceSettlesAny
  \/ TimerFires
  \/ Tick
  \/ HandleReset
  \/ AcquireResolves
  \/ AcquireRejects
  \/ LoadedMetadata
  \/ PlayResolves
  \/ PlayRejects
  \/ RetryCamera

SpecValidate == Init /\ [][NextValidate]_vars

(***************************************************************************)
(* Properties                                                              *)
(***************************************************************************)
LastRun == runs[Len(runs)]
JustCaptured == ev.op = "capturePhoto" /\ ev.accepted
ServiceWon == ev.op = "serviceSettles" /\ ~ev.late
UnfinishedRuns == {r \in DOMAIN runs : runs[r].race = "pending"}

\* C1: with a credential that is absent, empty, "undefined" or shorter than
\* the minimum length, a run of handleCapture calls the vision service zero
\* times and ends with the configuration message stored as the error, the
\* result left null and the busy flag down
ConfigurationErrorWithoutServiceCall ==
  /\ KeyRejected(apiKey) => \A r \in DOMAIN runs : runs[r].svc = "notcalled"
  /\ (JustCaptured /\ KeyRejected(apiKey)) =>
       /\ LastRun.race = "settled"
       /\ error = Stored("error", ConfigMsg)
       /\ result = Null
       /\ ~isProcessing

\* a capture was accepted with a key of nine characters
ShortKeyRunEnded ==
  /\ JustCaptured
  /\ apiKey.defined
  /\ Len(apiKey.chars) = MIN_KEY_LENGTH - 1
  /\ error = Stored("error", ConfigMsg)

\* C2: when the service call of a run never settles, the run stores the
\* timeout error when its timer fires, with the result null; the timer wins
\* no race before TIMEOUT_MS have passed since the run started, and a run
\* whose service call is still pending when the timer fired has stored the
\* timeout error
TimeoutAtTheDeadline ==
  /\ \A r \in DOMAIN runs :
       /\ runs[r].won = "timer" => runs[r].elapsed >= TIMEOUT_MS
       /\ runs[r].timer = "fired" => runs[r].elapsed >= TIMEOUT_MS
       /\ (runs[r].timer = "fired" /\ runs[r].svc = "pending") =>
            runs[r].won = "timer" /\ runs[r].writes = 1
       /\ (runs[r].race = "pending" /\ runs[r].elapsed >= TIMEOUT_MS) =>
            runs[r].timer = "armed" /\ runs[r].elapsed < TIMEOUT_MS + TickMs
  /\ (ev.op = "timerFires" /\ ~ev.late) =>
       /\ error = Stored("error", TimeoutMsg)
       /\ result = Null
       /\ ~isProcessing
  /\ error = Stored("error", TimeoutMsg) =>
       \E r \in DOMAIN runs : runs[r].won = "timer" /\ runs[r].elapsed >= TIMEOUT_MS

\* the timer of a run whose service call never settled has just fired
TimedOutWhileServicePending ==
  /\ ev.op = "timerFires"
  /\ ~ev.late
  /\ runs[ev.run].svc = "pending"
  /\ error = Stored("error", TimeoutMsg)

\* C3: a service call that settles after the timer won the race leaves
\* result, error and isProcessing as they were, whatever later runs did
\* meanwhile; every finished run wrote the stored outcome once, and an
\* unfinished run has not written it
LateSettlementIgnored ==
  /\ [][(ev'.op = "serviceSettles" /\ ev'.late) =>
          (result' = result /\ error' = error /\ isProcessing' = isProcessing)]_vars
  /\ [](\A r \in DOMAIN runs :
          /\ runs[r].race = "settled" => runs[r].writes = 1
          /\ runs[r].race = "pending" => runs[r].writes = 0)

\* the service call of the first run settles late while the second run is
\* in progress
LateSettlementDuringLaterRun ==
  /\ ev.op = "serviceSettles"
  /\ ev.late
  /\ ev.run = 1
  /\ runs[1].won = "timer"
  /\ Len(runs) = 2
  /\ runs[2].race = "pending"
  /\ isProcessing

\* C4: result and error are never both stored, after any captures (ended by
\* a result, a failure or a timeout) and resets; after handleReset both are
\* null
AtMostOneOutcomeStored ==
  /\ ~(result # Null /\ error # Null)
  /\ ev.op = "handleReset" => (result = Null /\ error = Null)

\* a result is stored by the run after one that timed out
ResultAfterTimedOutRun ==
  /\ Len(runs) = 2
  /\ runs[1].won = "timer"
  /\ runs[2].won = "service"
  /\ result # Null
  /\ error = Null

\* C5: capturePhoto called while streamActive is false, or with a frame of
\* width zero or not ready, or while isProcessing is true, does nothing: no
\* image goes to handleCapture, the stream and the capture state stay as they
\* are.  Between two calls of startCamera at most one image is handed over
CaptureRefusedIsNoOp ==
  /\ [][(/\ ev'.op = "capturePhoto"
         /\ \/ isProcessing
            \/ ~cam.streamActive
            \/ ev'.frame.videoWidth = 0
            \/ ev'.frame.readyState < MIN_READY_STATE)
        => (/\ ~ev'.accepted
            /\ cam' = cam
            /\ runs' = runs
            /\ isProcessing' = isProcessing
            /\ result' = result
            /\ error' = error)]_vars
  /\ [](cam.handed <= 1)

\* capturePhoto is called again, with a frame that is ready, after a capture
\* was handed over and before the camera started again
SecondCaptureRefused ==
  /\ ev.op = "capturePhoto"
  /\ ~ev.accepted
  /\ ev.frame.videoWidth > 0
  /\ ev.frame.readyState >= MIN_READY_STATE
  /\ cam.handed = 1
  /\ ~cam.streamActive

\* C6: in the composed system at most one run of handleCapture is unfinished
\* at any time, the busy flag is up exactly while one is, and a capture is
\* accepted only when no run is unfinished and the busy flag is down
OneUnfinishedRun ==
  /\ [](Cardinality(UnfinishedRuns) <= 1)
  /\ [](isProcessing <=> UnfinishedRuns # {})
  /\ [][(ev'.op = "capturePhoto" /\ ev'.accepted /\ runs' # runs) =>
          (~isProcessing /\ UnfinishedRuns = {})]_vars

\* the second capture is accepted after the first run finished, and its run
\* is in progress
SecondRunAfterFirstFinished ==
  /\ JustCaptured
  /\ Len(runs) = 2
  /\ runs[1].race = "settled"
  /\ runs[2].race = "pending"
  /\ isProcessing

\* C7: a call of handleCapture that arrives while the busy flag is up starts
\* no second run: no service call, no timer, no write of the stored outcome
HandleCaptureGuardsReentrancy ==
  [][(ev'.op = "handleCapture" /\ isProcessing) =>
       (runs' = runs /\ result' = result /\ error' = error)]_vars

\* the parsed response has no ingredients field, or an empty list
ParsesWithoutIngredients(text) ==
  LET parsed == JSONParse(Trim(text)) IN
  /\ text # <<>>
  /\ parsed.ok
  /\ \/ parsed.val.k # "obj"
     \/ IngredientsOf(parsed.val) \in {Undefined, JNull, JArr(<<>>)}

\* C8: a response that parses as JSON and whose ingredients are empty or
\* missing ends the run with the validation error, not with the parse error
\* or any other, and with no result, whatever the recipes field holds
NoIngredientsGivesValidationError ==
  (ServiceWon /\ ev.outcome.k = "text" /\ ParsesWithoutIngredients(ev.outcome.text)) =>
    (error = Stored("error", NoIngredientsMsg) /\ result = Null)

\* C9: a response text that is not empty and is no JSON (an unexpected
\* first token, a truncated text, whitespace only, garbage after the value,
\* the word fetch) ends the run with the parse error and no other
MalformedGivesParseError ==
  (/\ ServiceWon
   /\ ev.outcome.k = "text"
   /\ ev.outcome.text # <<>>
   /\ ~JSONParse(Trim(ev.outcome.text)).ok) =>
    (error = Stored("error", ParseMsg) /\ result = Null)

\* C10: a response between markdown fences, whatever the case of the
\* language marker, ends the run as the same payload without fences does:
\* the fenced empty-ingredients payload with the validation error, the
\* fenced valid payload with the result
FencedSameAsUnfenced ==
  \A marker \in FenceMarkers, payload \in {EmptyIngredientsPayload, ValidPayload} :
    (ServiceWon /\ ev.outcome = ServiceText(Fenced(marker, payload))) =>
      LET unfenced == Outcome(AnalyzeSettle(ev.engine, ServiceText(payload))) IN
      /\ unfenced.k = "result" => (result = unfenced /\ error = Null)
      /\ unfenced.k = "error" => (error = unfenced /\ result = Null)

\* the values the payloads stand for
ListOf(elems) == [k |-> "arr", v |-> elems]
TomatoData ==
  JObj(("\"name\"" :> JStr("\"tomato\"")) @@ ("\"info\"" :> JStr("\"rich in lycopene\""))
       @@ ("\"caloriesPer100g\"" :> JNum("18")))
TomatoSoupData ==
  JObj(("\"id\"" :> JStr("\"r1\"")) @@ ("\"name\"" :> JStr("\"tomato soup\""))
       @@ ("\"difficulty\"" :> JStr("\"easy\"")) @@ ("\"prepTime\"" :> JStr("\"10 min\""))
       @@ ("\"allIngredients\"" :> ListOf(<<JStr("\"tomato\"")>>))
       @@ ("\"instructions\"" :> ListOf(<<JStr("\"dice\""), JStr("\"boil\"")>>)))
ValidData ==
  JObj(("\"ingredients\"" :> ListOf(<<TomatoData>>)) @@ ("\"recipes\"" :> ListOf(<<TomatoSoupData>>)))
RepeatedIngredientData ==
  JObj(("\"ingredients\"" :> ListOf(<<TomatoData, TomatoData>>)) @@ ("\"recipes\"" :> ListOf(<<>>)))

\* C11: when the service gives, before the timer fires, a schema-complete
\* payload with ingredients, the stored result is the payload's value field
\* for field, the lists in the payload's order and with repeated elements
\* kept, and the stored error is null
ResultEqualsPayload ==
  (ServiceWon /\ ev.outcome.k = "text") =>
    /\ ev.outcome.text \in {ValidPayload, Padded(ValidPayload)} =>
         (result = Stored("result", ValidData) /\ error = Null /\ ~isProcessing)
    /\ ev.outcome.text = RepeatedIngredientPayload =>
         (result = Stored("result", RepeatedIngredientData) /\ error = Null /\ ~isProcessing)

\* the payload with the same ingredient twice was stored before the deadline
RepeatedIngredientStored ==
  /\ ServiceWon
  /\ ev.outcome.text = RepeatedIngredientPayload
  /\ runs[ev.run].elapsed < TIMEOUT_MS
  /\ Len(result.v.v["\"ingredients\""].v) = 2

\* C12: no failure leaves handleCapture: whether it comes from the
\* credential check, the service call (also a thrown null, a value without
\* message, a message that is no string), the parsing, the validation or the
\* timer, the run ends having stored an error, with the busy flag down
NoFailureEscapes ==
  /\ \A r \in DOMAIN runs : runs[r].race = "settled" => runs[r].writes = 1
  /\ (ServiceWon /\ ev.outcome.k = "throws") =>
       (error # Null /\ result = Null /\ ~isProcessing)
  /\ (ServiceWon /\ ev.outcome.k = "text" /\ result = Null) =>
       (error # Null /\ ~isProcessing)
  /\ (ev.op = "timerFires" /\ ~ev.late) => (error # Null /\ ~isProcessing)
  /\ (JustCaptured /\ KeyRejected(apiKey)) => (error # Null /\ ~isProcessing)

\* the service call threw null and the run stored an error
ThrownNullStored ==
  /\ ServiceWon
  /\ ev.outcome = ServiceThrows(NullishValue)
  /\ error # Null
  /\ ~isProcessing

\* C13: the rules are tried in the order configuration, network, parse and
\* the first that matches the message of a failure of the service decides:
\* a message that matches the credential pattern gives the configuration
\* error also when it contains fetch, then fetch gives the network error,
\* then "Unexpected token" the parse error
FirstMatchWins ==
  (ServiceWon /\ ev.outcome.k = "throws" /\ ev.outcome.thrown.k = "error") =>
    LET m == ev.outcome.thrown.message IN
    /\ MatchesApiKey(m) => error = Stored("error", ConfigMsg)
    /\ (~MatchesApiKey(m) /\ Includes(m, FetchNeedle)) => error = Stored("error", NetworkMsg)
    /\ (~MatchesApiKey(m) /\ ~Includes(m, FetchNeedle) /\ Includes(m, UnexpectedTokenNeedle)) =>
         error = Stored("error", ParseMsg)

RunJustEnded ==
  \/ ServiceWon
  \/ ev.op = "timerFires" /\ ~ev.late
  \/ JustCaptured /\ LastRun.race = "settled"

\* C14: every run of handleCapture ends with the busy flag down, whether the
\* service gives a text, throws or never settles; when the flag falls the
\* run has stored one outcome, a result or an error and not both; while the
\* run is in progress the flag is up and the error is null
EveryRunFinishes ==
  /\ [](isProcessing => (error = Null /\ UnfinishedRuns # {}))
  /\ [](UnfinishedRuns # {} => isProcessing)
  /\ [](RunJustEnded =>
          /\ ~isProcessing
          /\ (result # Null) # (error # Null)
          /\ \A r \in DOMAIN runs : runs[r].writes = 1)
  /\ (isProcessing ~> ~isProcessing)
  /\ \A n \in 1..MaxRuns :
       (Len(runs) >= n) ~> (Len(runs) >= n /\ runs[n].race = "settled")

\* the second run ended by its timer, the service never having settled
SecondRunTimedOut ==
  /\ ev.op = "timerFires"
  /\ ~ev.late
  /\ ev.run = 2
  /\ runs[2].svc = "pending"
  /\ ~isProcessing
  /\ error # Null

\* C15: handleReset leaves result and error null, and the CameraView that is
\* mounted by it calls startCamera in its effect without any click: the
\* acquisition of the camera is pending (or, outside a secure context, the
\* error of startCamera is shown)
ResetClearsAndRestarts ==
  ev.op = "handleReset" =>
    /\ result = Null
    /\ error = Null
    /\ cam.mounted
    /\ ~cam.capturedImage
    /\ ~cam.streamActive
    /\ IF secure THEN cam.gumPending = 1 /\ cam.error = Null
       ELSE cam.error = Stored("error", InsecureMsg)

\* handleReset after the result of the first run: the camera is starting
ResetAfterFirstResult ==
  /\ ev.op = "handleReset"
  /\ Len(runs) = 1
  /\ runs[1].won = "service"
  /\ cam.gumPending = 1

LiveStreams == {i \in DOMAIN cam.tracks : cam.tracks[i]}

\* C16: once the CameraView is unmounted, in whatever state it was, and the
\* acquisitions it had pending have settled, no stream it acquired is live:
\* the tracks of every stream, also of one delivered after the unmount, are
\* stopped
NoStreamLiveAfterTeardown ==
  (~cam.mounted /\ cam.gumOrphan = 0) => LiveStreams = {}

\* the calls of generateContent made by the runs of a sequence
RECURSIVE CallsIn(_)
CallsIn(rs) == IF rs = <<>> THEN 0 ELSE rs[Len(rs)].calls + CallsIn(SubSeq(rs, 1, Len(rs) - 1))

\* C17: a call of the vision service is made only by the step that accepts
\* a capture, one call for that capture; no step after a run ended in an
\* error makes one, so the calls never outnumber the accepted captures
OneServiceCallPerCapture ==
  /\ [][CallsIn(runs') # CallsIn(runs) =>
          /\ ev'.op = "capturePhoto"
          /\ ev'.accepted
          /\ Len(runs') = Len(runs) + 1
          /\ CallsIn(runs') = CallsIn(runs) + 1]_vars
  /\ [](\A r \in DOMAIN runs : runs[r].calls <= 1)
  /\ [](CallsIn(runs) <= Len(runs))

\* the first run ended in an error of the service, its timer fired later,
\* and one call has been made
NoCallAfterFailedRun ==
  /\ ev.op = "timerFires"
  /\ ev.late
  /\ Len(runs) = 1
  /\ runs[1].won = "service"
  /\ error # Null
  /\ CallsIn(runs) = 1

\* the response parses to an object whose ingredients field is there and is
\* no list
IngredientsNotASequence(text) ==
  LET parsed == JSONParse(Trim(text)) IN
  /\ text # <<>>
  /\ parsed.ok
  /\ parsed.val.k = "obj"
  /\ IngredientsOf(parsed.val).k \in {"num", "obj", "bool", "str"}

\* C18: a parsed response whose ingredients field is present and is no
\* sequence (a number, an object, true) ends the run with the validation
\* error and is never stored as the result
NonSequenceIngredientsRejected ==
  (ServiceWon /\ ev.outcome.k = "text" /\ IngredientsNotASequence(ev.outcome.text)) =>
    (error = Stored("error", NoIngredientsMsg) /\ result = Null)

IngredientKeys == {"\"name\"", "\"info\"", "\"caloriesPer100g\""}
RecipeKeys ==
  {"\"id\"", "\"name\"", "\"difficulty\"", "\"prepTime\"", "\"allIngredients\"",
   "\"instructions\""}

\* every element of the list is an object with the keys
AllCarry(list, keys) ==
  \A i \in 1..Len(list.v) : list.v[i].k = "obj" /\ keys \subseteq DOMAIN list.v[i].v

\* the response parses to an object with a non-empty list of ingredients
HasIngredientList(text) ==
  LET parsed == JSONParse(Trim(text)) IN
  /\ text # <<>>
  /\ parsed.ok
  /\ parsed.val.k = "obj"
  /\ IngredientsOf(parsed.val).k = "arr"
  /\ Len(IngredientsOf(parsed.val).v) > 0

\* every ingredient and every recipe of the response has its required fields
SchemaComplete(text) ==
  LET val == JSONParse(Trim(text)).val IN
  /\ AllCarry(IngredientsOf(val), IngredientKeys)
  /\ "\"recipes\"" \in DOMAIN val.v
  /\ val.v["\"recipes\""].k = "arr"
  /\ AllCarry(val.v["\"recipes\""], RecipeKeys)

\* C19: a parsed response in which an ingredient or a recipe lacks a
\* required field ends the run with the validation error and is never stored
\* as the result; one that lacks only nutrition and description is stored
RequiredFieldsChecked ==
  (ServiceWon /\ ev.outcome.k = "text" /\ HasIngredientList(ev.outcome.text)) =>
    IF SchemaComplete(ev.outcome.text)
    THEN result # Null /\ error = Null
    ELSE error = Stored("error", NoIngredientsMsg) /\ result = Null

\* the message of a thrown failure matches none of the rules
MatchesNoRule(e) ==
  /\ e.k \in {"error", "nomessage"}
  /\ ~MatchesApiKey(MessageOf(e))
  /\ ~Includes(MessageOf(e), FetchNeedle)
  /\ ~Includes(MessageOf(e), UnexpectedTokenNeedle)

\* C20: a failure of the service that matches no rule is stored with the
\* "system busy" message, and its own message is not what is stored
UnknownFailureGivesBusyMessage ==
  (ServiceWon /\ ev.outcome.k = "throws" /\ MatchesNoRule(ev.outcome.thrown)) =>
    (error = Stored("error", BusyMsg) /\ result = Null)

\* no frame makes capturePhoto take a picture
CaptureDisabled == \A frame \in Frames : CaptureRefused(cam, isProcessing, frame)

\* C21: startCamera ends with the error panel shown, capture refused and no
\* stream attached when getUserMedia is denied, when there is no device, and
\* outside a secure context; outside a secure context getUserMedia is never
\* called
StartFailureShowsError ==
  /\ [](ev.op = "acquireRejects" =>
          /\ cam.error \in {Stored("error", PermissionDeniedMsg), Stored("error", NoDeviceMsg)}
          /\ ~cam.streamActive
          /\ cam.videoSrc = 0
          /\ cam.gumPending = 0
          /\ CaptureDisabled)
  /\ [][ev'.op = "acquireRejects" => cam'.tracks = cam.tracks]_vars
  /\ [](~secure =>
          /\ cam.error = Stored("error", InsecureMsg)
          /\ cam.gumPending = 0
          /\ cam.requests = 0
          /\ cam.tracks = <<>>
          /\ ~cam.streamActive
          /\ CaptureDisabled)

\* the retry button was pressed outside a secure context
RetryOutsideSecureContext ==
  /\ ev.op = "retryCamera"
  /\ ~secure
  /\ cam.error = Stored("error", InsecureMsg)
  /\ cam.gumPending = 0

\* C22: an accepted capturePhoto, made while the stream is active, hands
\* the image to handleCapture and stops the tracks of the stream attached to
\* the video element; while the captured still is shown streamActive is
\* false, no stream is attached, and the stream that was captured from is
\* stopped
CaptureStopsStream ==
  /\ [][(ev'.op = "capturePhoto" /\ ev'.accepted) =>
          /\ cam.streamActive
          /\ cam.videoSrc # 0
          /\ cam.tracks[cam.videoSrc]
          /\ ~cam'.tracks[cam.videoSrc]
          /\ Len(runs') = Len(runs) + 1]_vars
  /\ [](cam.capturedImage =>
          /\ ~cam.streamActive
          /\ cam.videoSrc = 0
          /\ cam.handed = 1
          /\ cam.tracks # <<>>
          /\ ~cam.tracks[Len(cam.tracks)])

\* the still of an accepted capture is shown while its run is in progress
CapturedWhileProcessing ==
  /\ JustCaptured
  /\ cam.capturedImage
  /\ isProcessing
  /\ ~cam.tracks[Len(cam.tracks)]

\* C23: startCamera shows an error only after two calls of getUserMedia
\* failed, the second with the minimal configuration: a rejection that puts
\* up the error panel is the rejection of the second request
ErrorOnlyAfterFallback ==
  ev.op = "acquireRejects" => cam.requests = 2

\* C24: streamActive becomes true only when play() resolved, and then the
\* video element is playing; when play() rejects streamActive stays false,
\* the error is shown, capturePhoto is refused, and the stream of that
\* acquisition never becomes the active one
StreamingOnlyAfterPlaying ==
  /\ [][(cam'.streamActive /\ ~cam.streamActive) => ev'.op = "playResolves"]_vars
  /\ [](cam.streamActive => (cam.videoPhase = "playing" /\ cam.videoSrc # 0))
  /\ [](ev.op = "playRejects" =>
          /\ ~cam.streamActive
          /\ cam.error = Stored("error", TapToStartMsg)
          /\ cam.videoSrc = 0
          /\ CaptureDisabled)
  /\ [][(cam'.videoSrc # cam.videoSrc /\ cam'.videoSrc # 0) =>
          (ev'.op = "acquireResolves" /\ cam'.videoSrc = Len(cam.tracks) + 1)]_vars

\* play() was rejected for the stream acquired by a retry
PlayRejectedAfterRetry ==
  /\ ev.op = "playRejects"
  /\ Len(cam.tracks) = 2
  /\ ~cam.streamActive
  /\ cam.error = Stored("error", TapToStartMsg)

\* C25: the credential is read at every call: a capture calls the service
\* exactly when the credential of that moment passes the check, whatever
\* earlier runs saw; after a run that ended with the configuration error and
\* a corrected credential, the next capture calls the service, with no reset
CredentialReadAtEveryCall ==
  JustCaptured =>
    /\ KeyRejected(apiKey) =>
         (LastRun.svc = "notcalled" /\ error = Stored("error", ConfigMsg) /\ ~isProcessing)
    /\ ~KeyRejected(apiKey) =>
         (LastRun.svc = "pending" /\ LastRun.calls = 1 /\ error = Null /\ isProcessing)

\* the first run ended with the configuration error, the credential was
\* corrected, and the second capture called the service
ServiceCalledAfterCorrection ==
  /\ JustCaptured
  /\ Len(runs) = 2
  /\ runs[1].won = "credential"
  /\ runs[2].svc = "pending"
  /\ result = Null

\* C26: over starts, playback failures, retries, captures and unmounts at
\* most one acquired stream has live tracks, and getUserMedia is not called
\* while a stream acquired before is live
AtMostOneLiveStream ==
  /\ Cardinality(LiveStreams) <= 1
  /\ cam.gumPending > 0 => LiveStreams = {}

\* C27: the timer of a run is never cancelled: it stays armed after its run
\* finished and fires later.  When it fires after its run finished (the
\* service won, or the credential check failed) result, error, isProcessing,
\* the CameraView and every other run stay as they are
LateTimerChangesNothing ==
  /\ [][(ev'.op = "timerFires" /\ ev'.late) =>
          /\ runs[ev'.run].race = "settled"
          /\ runs[ev'.run].won \in {"service", "credential"}
          /\ result' = result
          /\ error' = error
          /\ isProcessing' = isProcessing
          /\ cam' = cam
          /\ runs' = [runs EXCEPT ![ev'.run].timer = "fired"]]_vars
  /\ [][\A r \in DOMAIN runs :
          /\ runs[r].timer = "armed" =>
               (runs'[r].timer = "armed" \/ (ev'.op = "timerFires" /\ ev'.run = r))
          /\ runs[r].timer = "fired" => runs'[r].timer = "fired"]_vars

\* the timer of the first run, which the service won, fires while the
\* second run is in progress
LateTimerDuringSecondRun ==
  /\ ev.op = "timerFires"
  /\ ev.late
  /\ ev.run = 1
  /\ runs[1].won = "service"
  /\ Len(runs) = 2
  /\ runs[2].race = "pending"
  /\ isProcessing
  /\ error = Null

\* a click on the shutter would be accepted
CaptureEnabled ==
  /\ cam.streamActive
  /\ ~isProcessing
  /\ \E frame \in Frames : ~CaptureRefused(cam, isProcessing, frame)

\* C28: when a run ends in an error the fall of the busy flag makes the
\* CameraView call startCamera by itself, and with a device that grants the
\* camera the stream becomes active again and a capture can be accepted,
\* the error still stored and handleReset never called
RestartsAfterError ==
  /\ [](RunJustEnded /\ error # Null =>
          /\ cam.mounted
          /\ cam.gumPending = 1
          /\ ~cam.capturedImage
          /\ cam.error = Null)
  /\ ((RunJustEnded /\ error # Null) ~> (CaptureEnabled /\ result = Null))

\* the stream is active again while the error of the run that ended is
\* still stored
StreamingAgainAfterError ==
  /\ CaptureEnabled
  /\ error # Null
  /\ Len(runs) = 1
  /\ Len(cam.tracks) = 2

\* C29: while a result is stored the CameraView is unmounted: no stream is
\* live, no acquisition is pending or started, no capture is accepted, and
\* the result stays as it is, without an error beside it, until handleReset
ResultMeansTornDown ==
  /\ [](result # Null =>
          /\ ~cam.mounted
          /\ LiveStreams = {}
          /\ cam.gumPending = 0
          /\ cam.gumOrphan = 0
          /\ CaptureDisabled
          /\ error = Null)
  /\ [][result # Null =>
          /\ result' = result \/ (ev'.op = "handleReset" /\ result' = Null)
          /\ Len(runs') = Len(runs)
          /\ Len(cam'.tracks) = Len(cam.tracks)]_vars

\* the same without the live streams: this much holds of the composed system
ResultMeansTornDownButStreams ==
  /\ [](result # Null =>
          /\ ~cam.mounted
          /\ cam.gumPending = 0
          /\ cam.gumOrphan = 0
          /\ CaptureDisabled
          /\ error = Null)
  /\ [][result # Null =>
          /\ result' = result \/ (ev'.op = "handleReset" /\ result' = Null)
          /\ Len(runs') = Len(runs)
          /\ (Len(cam'.tracks) = Len(cam.tracks) \/ ev'.op = "handleReset")]_vars

====
